---- MODULE Spec2Model ----
(***************************************************************************)
(* A model of the field-validation registry of src/operation.js.           *)
(*                                                                         *)
(* The registry is the `validator` object every operation receives: the    *)
(* three maps validationStorage, groupStroage and resultCache.  JavaScript *)
(* objects that are shared by reference (a field record, a listener array, *)
(* a result array, a structured result) live in `heap` and are named by a  *)
(* reference; everything else is a value.  A JavaScript value is a tagged  *)
(* record, so that lodash's type predicates are translated as they are.    *)
(***************************************************************************)
EXTENDS Integers, Sequences, FiniteSets, TLC

\* ------------------------------------------------------------------ bounds
MaxClosures == 2      \* unsubscribe closures the caller keeps at one time
MaxListeners == 2     \* longest listener array

IdOrder == <<"a", "b">>   \* the ids, in the order a key enumeration visits them
Ids == {IdOrder[i] : i \in DOMAIN IdOrder}
GroupNames == {"g", "h"}
ListenerFns == {"L1", "L2"}
Samples == {17, 18}   \* values a getter produces

\* ------------------------------------------------------- JavaScript values
Undef == [t |-> "undefined"]
Null == [t |-> "null"]
Num == [t |-> "number"]                     \* some number, e.g. 42
Str(s) == [t |-> "string", s |-> s]
Bool(b) == [t |-> "boolean", b |-> b]
Fn(f) == [t |-> "function", f |-> f]
Arr(v) == [t |-> "array", v |-> v]          \* an array literal of the caller
Ref(r) == [t |-> "ref", r |-> r]            \* a reference into heap
TypeError == [t |-> "throw", e |-> "TypeError"]

isNil(x) == x.t \in {"undefined", "null"}
isString(x) == x.t = "string"
isFunction(x) == x.t = "function"
isArray(x) == x.t = "array"
isObject(x) == x.t \in {"object", "array", "function", "ref"}

Min(x, y) == IF x < y THEN x ELSE y
Max(x, y) == IF x < y THEN y ELSE x

VARIABLES
  validationStorage,  \* id -> reference of the field record; DOMAIN = registered ids
  groupStroage,       \* group name -> (id -> BOOLEAN); DOMAINs are the keys present
  resultCache,        \* id -> Undef or the reference of the cached result array
  heap,               \* reference -> object: the objects shared by reference
  closures,           \* the unsubscribe closures the caller holds, oldest first
  out,                \* what the last call did: its name, return value, callbacks
  cleared,            \* history: ids cleared by clearListeners, no subscribe since
  lastCall            \* history: per id and group, the addGroup/removeGroup call
                      \* that came after every other write of that flag

vars == <<validationStorage, groupStroage, resultCache, heap, closures, out,
          cleared, lastCall>>

\* The state as one value: what an operation reads, and what it returns.
Now ==
  [validationStorage |-> validationStorage, groupStroage |-> groupStroage,
   resultCache |-> resultCache, heap |-> heap, closures |-> closures, out |-> out,
   cleared |-> cleared, lastCall |-> lastCall]

\* ------------------------------------------------------------------- heap
\* `new`: the object placed at a new reference.
New(h, o) == [heap |-> Append(h, o), r |-> Len(h) + 1]

\* The references an object holds, in the order of its properties.
Children(o) ==
  CASE o.t = "record" -> IF o.listeners.t = "ref" THEN <<o.listeners.r>> ELSE <<>>
    [] o.t = "results" -> LET refs == SelectSeq(o.v, LAMBDA e : e.t = "ref")
                          IN [i \in DOMAIN refs |-> refs[i].r]
    [] OTHER -> <<>>

RECURSIVE Flatten(_)
Flatten(ss) == IF ss = <<>> THEN <<>> ELSE Head(ss) \o Flatten(Tail(ss))

\* The references a returned value holds.
ValueRefs(v) ==
  CASE v.t = "ref" -> <<v.r>>
    [] v.t = "closure" -> <<v.validation, v.listeners>>
    [] v.t = "map" -> LET ids == SelectSeq(IdOrder, LAMBDA i : i \in DOMAIN v.m
                                                               /\ v.m[i].t = "ref")
                      IN [i \in DOMAIN ids |-> v.m[ids[i]].r]
    [] OTHER -> <<>>

\* The references the registry, the caller's closures and the last returned
\* value hold.
Roots(st) ==
  LET registered == SelectSeq(IdOrder, LAMBDA i : i \in DOMAIN st.validationStorage)
      cachedIds == SelectSeq(IdOrder, LAMBDA i : i \in DOMAIN st.resultCache
                                                  /\ st.resultCache[i].t = "ref")
  IN [i \in DOMAIN registered |-> st.validationStorage[registered[i]]]
       \o [i \in DOMAIN cachedIds |-> st.resultCache[cachedIds[i]].r]
       \o Flatten([i \in DOMAIN st.closures |-> ValueRefs(st.closures[i])])
       \o ValueRefs(st.out.ret)

\* The live references, each once, in the order a walk from the roots meets them.
RECURSIVE Walk(_, _, _)
Walk(h, todo, seen) ==
  IF todo = <<>> THEN seen
  ELSE IF \E i \in DOMAIN seen : seen[i] = Head(todo)
       THEN Walk(h, Tail(todo), seen)
       ELSE Walk(h, Children(h[Head(todo)]) \o Tail(todo), Append(seen, Head(todo)))

\* Garbage collection: the objects no reference leads to are gone, and the
\* live ones are numbered in the order of the walk (a reference's number has
\* no meaning to the program).
Collect(st) ==
  LET live == Walk(st.heap, Roots(st), <<>>)
      at(r) == CHOOSE i \in DOMAIN live : live[i] = r
      val(v) == IF v.t = "ref" THEN Ref(at(v.r)) ELSE v
      obj(o) == CASE o.t = "record" -> [o EXCEPT !.listeners = val(@)]
                  [] o.t = "results" -> [o EXCEPT !.v = [i \in DOMAIN @ |-> val(@[i])]]
                  [] OTHER -> o
      closure(c) == [c EXCEPT !.validation = at(@), !.listeners = at(@)]
      ret(v) == CASE v.t = "ref" -> val(v)
                  [] v.t = "closure" -> closure(v)
                  [] v.t = "map" -> [v EXCEPT !.m = [i \in DOMAIN @ |-> val(@[i])]]
                  [] OTHER -> v
  IN [st EXCEPT
        !.heap = [i \in DOMAIN live |-> obj(st.heap[live[i]])],
        !.validationStorage = [i \in DOMAIN @ |-> at(@[i])],
        !.resultCache = [i \in DOMAIN @ |-> val(@[i])],
        !.closures = [i \in DOMAIN @ |-> closure(@[i])],
        !.out = [@ EXCEPT !.ret = ret(@)]]

\* The step to the state an operation returned.
Becomes(st) ==
  \E reached \in {st} : \E nx \in {Collect(reached)} :
     /\ validationStorage' = nx.validationStorage
     /\ groupStroage' = nx.groupStroage
     /\ resultCache' = nx.resultCache
     /\ heap' = nx.heap
     /\ closures' = nx.closures
     /\ out' = nx.out
     /\ cleared' = nx.cleared
     /\ lastCall' = nx.lastCall

\* ----------------------------------------------------------- type checks
checkFieldType(field) == isObject(field)
checkId(id) == isString(id)
checkGetter(getter) == isFunction(getter)
checkName(name) == isNil(name) \/ isString(name)
checkGroups(groups) ==
  \/ isNil(groups)
  \/ /\ isArray(groups)
     /\ \A i \in DOMAIN groups.v : isString(groups.v[i])
checkValidationChain(validationChain) ==
  isNil(validationChain) \/ isArray(validationChain)
checkCallback(callback) == isNil(callback) \/ isFunction(callback)
checkListener(listener) == isNil(listener) \/ isFunction(listener)

getDisplayName(name, id) == IF isNil(name) THEN id ELSE name

\* ---------------------------------------------------------- group storage
\* group[id] = flag, on the group named g, created when absent.
SetFlag(gs, g, id, flag) ==
  LET group == IF g \in DOMAIN gs THEN gs[g] ELSE <<>>
      written == [i \in DOMAIN group \cup {id} |-> IF i = id THEN flag ELSE group[i]]
  IN [n \in DOMAIN gs \cup {g} |-> IF n = g THEN written ELSE gs[n]]

\* groups.forEach(element => { ...; group[id] = true })
RECURSIVE MarkAll(_, _, _)
MarkAll(gs, names, id) ==
  IF names = <<>> THEN gs
  ELSE MarkAll(SetFlag(gs, Head(names).s, id, TRUE), Tail(names), id)

\* _.values(groupStroage).forEach(element => { element[id] = false })
UnmarkAll(gs, id) ==
  [n \in DOMAIN gs |->
     [i \in DOMAIN gs[n] \cup {id} |-> IF i = id THEN FALSE ELSE gs[n][i]]]

Truthy(gs, g, id) == g \in DOMAIN gs /\ id \in DOMAIN gs[g] /\ gs[g][id]

\* getIdsFromGroups taking every id a named group has a flag for, whatever
\* the flag.
getIdsFromGroupsAnyFlag(st, groups) ==
  IF isNil(groups) THEN DOMAIN st.validationStorage
  ELSE {id \in Ids : \E i \in DOMAIN groups.v :
          /\ groups.v[i].s \in DOMAIN st.groupStroage
          /\ id \in DOMAIN st.groupStroage[groups.v[i].s]}

\* The ids the groups resolve to, as a set.
getIdsFromGroups(st, groups) ==
  IF isNil(groups) THEN DOMAIN st.validationStorage
  ELSE {id \in Ids : \E i \in DOMAIN groups.v : Truthy(st.groupStroage, groups.v[i].s, id)}

\* The ids of a set as a sequence, for _.each over them.
InOrder(S) == SelectSeq(IdOrder, LAMBDA i : i \in S)

\* ------------------------------------------------------------ call results
Result(op, ret, cb, notified) ==
  [op |-> op, ret |-> ret, cb |-> cb, notified |-> notified]

\* The call throws here: st is the state it has reached.
Throws(st, op) == [st EXCEPT !.out = Result(op, TypeError, FALSE, <<>>)]

\* The call returns here without having called back.
Returns(st, op, ret) == [st EXCEPT !.out = Result(op, ret, FALSE, <<>>)]

\* if (!_.isNil(callback)) callback()
Called(callback) == ~isNil(callback)

registered(st, id) == id \in DOMAIN st.validationStorage

\* An addGroup/removeGroup history ends where another operation writes the
\* flag of id in the groups named.
Forget(lc, id, names) ==
  [p \in DOMAIN lc |-> IF p[1] = id /\ p[2] \in names THEN "none" ELSE lc[p]]

\* ------------------------------------------------------------- operations
\* register without its guard against an id that is registered already.
registerOverwrites(st, field, validationChain, callback) ==
  IF ~checkFieldType(field) THEN Throws(st, "register")
  ELSE IF ~(/\ checkId(field.id)
            /\ checkGetter(field.getter)
            /\ checkName(field.name)
            /\ checkGroups(field.groups)
            /\ checkValidationChain(validationChain)
            /\ checkCallback(callback)) THEN Throws(st, "register")
  ELSE LET id == field.id.s
           new == New(st.heap, [t |-> "record", name |-> field.name,
                                validationChain |-> validationChain,
                                getter |-> field.getter, listeners |-> Undef])
           names == IF isNil(field.groups) THEN <<>> ELSE field.groups.v
       IN [st EXCEPT
             !.heap = new.heap,
             !.validationStorage = [i \in DOMAIN @ \cup {id} |->
                                      IF i = id THEN new.r ELSE @[i]],
             !.groupStroage = MarkAll(@, names, id),
             !.lastCall = Forget(@, id, {names[i].s : i \in DOMAIN names}),
             !.out = Result("register", Bool(TRUE), Called(callback), <<>>)]

register(st, field, validationChain, callback) ==
  IF ~checkFieldType(field) THEN Throws(st, "register")
  ELSE IF ~(/\ checkId(field.id)
            /\ checkGetter(field.getter)
            /\ checkName(field.name)
            /\ checkGroups(field.groups)
            /\ checkValidationChain(validationChain)
            /\ checkCallback(callback)) THEN Throws(st, "register")
  ELSE IF registered(st, field.id.s) THEN Returns(st, "register", Undef)
  ELSE LET id == field.id.s
           new == New(st.heap, [t |-> "record", name |-> field.name,
                                validationChain |-> validationChain,
                                getter |-> field.getter, listeners |-> Undef])
           names == IF isNil(field.groups) THEN <<>> ELSE field.groups.v
       IN [st EXCEPT
             !.heap = new.heap,
             !.validationStorage = [i \in DOMAIN @ \cup {id} |->
                                      IF i = id THEN new.r ELSE @[i]],
             !.groupStroage = MarkAll(@, names, id),
             !.lastCall = Forget(@, id, {names[i].s : i \in DOMAIN names}),
             !.out = Result("register", Bool(TRUE), Called(callback), <<>>)]

\* deregister taking the id out of every group as well.
deregisterPurges(st, id, callback) ==
  IF ~(checkId(id) /\ checkCallback(callback)) THEN Throws(st, "deregister")
  ELSE IF ~registered(st, id.s) THEN Returns(st, "deregister", Undef)
  ELSE [st EXCEPT
          !.validationStorage = [i \in DOMAIN @ \ {id.s} |-> @[i]],
          !.resultCache = [i \in DOMAIN @ \cup {id.s} |-> IF i = id.s THEN Undef ELSE @[i]],
          !.groupStroage = UnmarkAll(@, id.s),
          !.cleared = @ \ {id.s},
          !.out = Result("deregister", Undef, Called(callback), <<>>)]

\* deregister leaving the cached result of the field in place.
deregisterKeepsResult(st, id, callback) ==
  IF ~(checkId(id) /\ checkCallback(callback)) THEN Throws(st, "deregister")
  ELSE IF ~registered(st, id.s) THEN Returns(st, "deregister", Undef)
  ELSE [st EXCEPT
          !.validationStorage = [i \in DOMAIN @ \ {id.s} |-> @[i]],
          !.cleared = @ \ {id.s},
          !.out = Result("deregister", Undef, Called(callback), <<>>)]

deregister(st, id, callback) ==
  IF ~(checkId(id) /\ checkCallback(callback)) THEN Throws(st, "deregister")
  ELSE IF ~registered(st, id.s) THEN Returns(st, "deregister", Undef)
  ELSE [st EXCEPT
          !.validationStorage = [i \in DOMAIN @ \ {id.s} |-> @[i]],
          !.resultCache = [i \in DOMAIN @ \cup {id.s} |-> IF i = id.s THEN Undef ELSE @[i]],
          !.cleared = @ \ {id.s},
          !.out = Result("deregister", Undef, Called(callback), <<>>)]

\* -------------------------------------------------------------- validation
\* f({name, value}) for the three validation functions callers register here:
\* a boolean check, one that reports the name it was given, and one that
\* returns a structured result, a new object on every call.
RECURSIVE runChain(_, _, _, _, _)
runChain(h, chain, name, samples, acc) ==
  IF chain = <<>> THEN [heap |-> h, results |-> acc]
  ELSE LET f == Head(chain).f
           value == Head(samples)
       IN IF f = "check"
          THEN LET new == New(h, [t |-> "object", valid |-> value >= 18])
               IN runChain(new.heap, Tail(chain), name, Tail(samples),
                           Append(acc, Ref(new.r)))
          ELSE runChain(h, Tail(chain), name, Tail(samples),
                        Append(acc, IF f = "isAdult" THEN Bool(value >= 18) ELSE name))

chainOf(validation) ==
  IF isNil(validation.validationChain) THEN <<>> ELSE validation.validationChain.v

\* const {listeners = []} = validation, read only
listenersOf(h, validation) ==
  IF validation.listeners.t = "ref" THEN h[validation.listeners.r].v ELSE <<>>

\* validateOne returning the results without saving them to the cache.
validateOneSavesNothing(st, id, callback, samples) ==
  IF ~(checkId(id) /\ checkCallback(callback)) THEN Throws(st, "validateOne")
  ELSE IF ~registered(st, id.s) THEN Returns(st, "validateOne", Undef)
  ELSE LET validation == st.heap[st.validationStorage[id.s]]
           ran == runChain(st.heap, chainOf(validation),
                           getDisplayName(validation.name, id), samples, <<>>)
           new == New(ran.heap, [t |-> "results", v |-> ran.results])
           listeners == listenersOf(new.heap, validation)
       IN [st EXCEPT
             !.heap = new.heap,
             !.out = Result("validateOne", Ref(new.r), Called(callback),
                            [i \in DOMAIN listeners |-> <<id.s, listeners[i]>>])]

\* validateOne reading the getter once, before the chain, and giving every
\* chain function that one value.
validateOneReadsOnce(st, id, callback, samples) ==
  IF ~(checkId(id) /\ checkCallback(callback)) THEN Throws(st, "validateOne")
  ELSE IF ~registered(st, id.s) THEN Returns(st, "validateOne", Undef)
  ELSE LET validation == st.heap[st.validationStorage[id.s]]
           ran == runChain(st.heap, chainOf(validation),
                           getDisplayName(validation.name, id),
                           [i \in DOMAIN samples |-> samples[1]], <<>>)
           new == New(ran.heap, [t |-> "results", v |-> ran.results])
           listeners == listenersOf(new.heap, validation)
       IN [st EXCEPT
             !.heap = new.heap,
             !.resultCache = [i \in DOMAIN @ \cup {id.s} |->
                                IF i = id.s THEN Ref(new.r) ELSE @[i]],
             !.out = Result("validateOne", Ref(new.r), Called(callback),
                            [i \in DOMAIN listeners |-> <<id.s, listeners[i]>>])]

\* samples: the values the getter returns, one per call.
validateOne(st, id, callback, samples) ==
  IF ~(checkId(id) /\ checkCallback(callback)) THEN Throws(st, "validateOne")
  ELSE IF ~registered(st, id.s) THEN Returns(st, "validateOne", Undef)
  ELSE LET validation == st.heap[st.validationStorage[id.s]]
           ran == runChain(st.heap, chainOf(validation),
                           getDisplayName(validation.name, id), samples, <<>>)
           new == New(ran.heap, [t |-> "results", v |-> ran.results])
           listeners == listenersOf(new.heap, validation)
       IN [st EXCEPT
             !.heap = new.heap,
             !.resultCache = [i \in DOMAIN @ \cup {id.s} |->
                                IF i = id.s THEN Ref(new.r) ELSE @[i]],
             !.out = Result("validateOne", Ref(new.r), Called(callback),
                            [i \in DOMAIN listeners |-> <<id.s, listeners[i]>>])]

\* One thing validateOne does, and the state the registry is in when it does
\* it: a chain function called, the results saved, a listener called with
\* arg, the callback called.
Event(e, f, arg, st) == [e |-> e, f |-> f, arg |-> arg, st |-> st]

\* validateOne on a registered field with the listeners called before the
\* results are saved.
validateOneTraceNotifiesFirst(st, id, callback, samples) ==
  LET validation == st.heap[st.validationStorage[id.s]]
      chain == chainOf(validation)
      ran == runChain(st.heap, chain, getDisplayName(validation.name, id), samples, <<>>)
      new == New(ran.heap, [t |-> "results", v |-> ran.results])
      computed == [st EXCEPT !.heap = new.heap]
      saved == [computed EXCEPT
                  !.resultCache = [i \in DOMAIN @ \cup {id.s} |->
                                     IF i = id.s THEN Ref(new.r) ELSE @[i]]]
      listeners == listenersOf(new.heap, validation)
  IN [i \in DOMAIN chain |-> Event("chain", chain[i].f, Undef, st)]
       \o [i \in DOMAIN listeners |-> Event("listener", listeners[i], Ref(new.r), computed)]
       \o <<Event("save", "", Ref(new.r), saved)>>
       \o (IF Called(callback) THEN <<Event("callback", "", Undef, saved)>> ELSE <<>>)

\* validateOne on a registered field, step by step (lines 198 to 215).
validateOneTrace(st, id, callback, samples) ==
  LET validation == st.heap[st.validationStorage[id.s]]
      chain == chainOf(validation)
      ran == runChain(st.heap, chain, getDisplayName(validation.name, id), samples, <<>>)
      new == New(ran.heap, [t |-> "results", v |-> ran.results])
      computed == [st EXCEPT !.heap = new.heap]
      saved == [computed EXCEPT
                  !.resultCache = [i \in DOMAIN @ \cup {id.s} |->
                                     IF i = id.s THEN Ref(new.r) ELSE @[i]]]
      listeners == listenersOf(new.heap, validation)
  IN [i \in DOMAIN chain |-> Event("chain", chain[i].f, Undef, st)]
       \o <<Event("save", "", Ref(new.r), saved)>>
       \o [i \in DOMAIN listeners |-> Event("listener", listeners[i], Ref(new.r), saved)]
       \o (IF Called(callback) THEN <<Event("callback", "", Undef, saved)>> ELSE <<>>)

\* _.each(fieldIds, element => { result[element] = validateOne(validator, element, null) })
RECURSIVE validateEach(_, _, _, _, _)
validateEach(st, ids, samples, result, notified) ==
  IF ids = <<>> THEN [st |-> st, result |-> result, notified |-> notified]
  ELSE LET nx == validateOne(st, Str(Head(ids)), Null, samples[Head(ids)])
       IN validateEach(nx, Tail(ids), samples, result @@ (Head(ids) :> nx.out.ret),
                       notified \o nx.out.notified)

validate(st, groups, callback, samples) ==
  IF ~(checkGroups(groups) /\ checkCallback(callback)) THEN Throws(st, "validate")
  ELSE LET fieldIds == getIdsFromGroups(st, groups)
           done == validateEach(st, InOrder(fieldIds), samples, <<>>, <<>>)
       IN [done.st EXCEPT
             !.out = Result("validate", [t |-> "map", m |-> done.result],
                            Called(callback), done.notified)]

\* ---------------------------------------------------------------- listeners
indexOf(s, x) ==
  IF \E i \in DOMAIN s : s[i] = x
  THEN (CHOOSE i \in DOMAIN s : s[i] = x /\ \A j \in 1..(i - 1) : s[j] # x) - 1
  ELSE -1

\* Array.prototype.splice(start, 1): a negative start counts from the end.
splice1(s, start) ==
  LET from == IF start < 0 THEN Max(Len(s) + start, 0) ELSE Min(start, Len(s))
  IN IF from < Len(s)
     THEN [i \in 1..(Len(s) - 1) |-> IF i <= from THEN s[i] ELSE s[i + 1]]
     ELSE s

\* The closure subscribe returns: the listener, the listener array and the
\* field record it has captured.
Closure(listener, listeners, validation) ==
  [t |-> "closure", listener |-> listener, listeners |-> listeners,
   validation |-> validation]

subscribe(st, id, listener, callback) ==
  IF ~(checkListener(listener) /\ checkCallback(callback)) THEN Throws(st, "subscribe")
  ELSE IF isNil(listener) THEN Returns(st, "subscribe", Bool(TRUE))
  ELSE IF ~registered(st, id.s)
       THEN Throws(st, "subscribe")    \* const {listeners = []} = undefined
  ELSE LET v == st.validationStorage[id.s]
           validation == st.heap[v]
           new == IF validation.listeners.t = "ref"
                  THEN [heap |-> st.heap, r |-> validation.listeners.r]
                  ELSE New(st.heap, [t |-> "listeners", v |-> <<>>])
       IN [st EXCEPT
             !.heap = [new.heap EXCEPT ![new.r].v = Append(@, listener.f),
                                       ![v].listeners = Ref(new.r)],
             !.cleared = @ \ {id.s},
             !.out = Result("subscribe", Closure(listener.f, new.r, v),
                            Called(callback), <<>>)]

\* The closure c, invoked.
unsubscribe(st, c) ==
  LET listeners == st.heap[c.listeners].v
      index == indexOf(listeners, c.listener)
  IN [st EXCEPT
        !.heap = [@ EXCEPT ![c.listeners].v = splice1(listeners, index),
                           ![c.validation].listeners = Ref(c.listeners)],
        !.out = Result("unsubscribe", Bool(TRUE), FALSE, <<>>)]

clearListeners(st, id, callback) ==
  IF ~(checkId(id) /\ checkCallback(callback)) THEN Throws(st, "clearListeners")
  ELSE IF ~registered(st, id.s) THEN Returns(st, "clearListeners", Undef)
  ELSE LET new == New(st.heap, [t |-> "listeners", v |-> <<>>])
       IN [st EXCEPT
             !.heap = [new.heap EXCEPT ![st.validationStorage[id.s]].listeners = Ref(new.r)],
             !.cleared = @ \cup {id.s},
             !.out = Result("clearListeners", Undef, Called(callback), <<>>)]

\* ------------------------------------------------------- group membership
\* updateGroups without the removal from the groups there are.
updateGroupsKeeps(st, id, groups, callback) ==
  IF ~(checkGroups(groups) /\ checkCallback(callback)) THEN Throws(st, "updateGroups")
  ELSE IF isNil(groups) THEN Throws(st, "updateGroups")
  ELSE [st EXCEPT
          !.groupStroage = MarkAll(@, groups.v, id.s),
          !.lastCall = Forget(@, id.s, {groups.v[i].s : i \in DOMAIN groups.v}),
          !.out = Result("updateGroups", Bool(TRUE), Called(callback), <<>>)]

updateGroups(st, id, groups, callback) ==
  IF ~(checkGroups(groups) /\ checkCallback(callback)) THEN Throws(st, "updateGroups")
  ELSE LET removed == [st EXCEPT !.groupStroage = UnmarkAll(@, id.s),
                                 !.lastCall = Forget(@, id.s, DOMAIN st.groupStroage)]
       IN IF isNil(groups)
          THEN Throws(removed, "updateGroups")    \* groups.forEach of null
          ELSE [removed EXCEPT
                  !.groupStroage = MarkAll(@, groups.v, id.s),
                  !.lastCall = Forget(@, id.s, {groups.v[i].s : i \in DOMAIN groups.v}),
                  !.out = Result("updateGroups", Bool(TRUE), Called(callback), <<>>)]

addGroup(st, id, group, callback) ==
  IF ~(checkGroups(Arr(<<group>>)) /\ checkCallback(callback)) THEN Throws(st, "addGroup")
  ELSE [st EXCEPT
          !.groupStroage = SetFlag(@, group.s, id.s, TRUE),
          !.lastCall = [@ EXCEPT ![<<id.s, group.s>>] = "addGroup"],
          !.out = Result("addGroup", Bool(TRUE), Called(callback), <<>>)]

\* removeGroup without the return for an id that is not registered.
removeGroupUnchecked(st, id, group, callback) ==
  IF ~(checkGroups(Arr(<<group>>)) /\ checkCallback(callback))
  THEN Throws(st, "removeGroup")
  ELSE LET called == [st EXCEPT !.lastCall = [@ EXCEPT ![<<id.s, group.s>>] = "removeGroup"]]
       IN IF group.s \notin DOMAIN st.groupStroage
          THEN Returns(called, "removeGroup", Undef)
          ELSE [called EXCEPT
                  !.groupStroage = SetFlag(@, group.s, id.s, FALSE),
                  !.out = Result("removeGroup", Undef, Called(callback), <<>>)]

removeGroup(st, id, group, callback) ==
  IF ~(checkGroups(Arr(<<group>>)) /\ checkCallback(callback))
  THEN Throws(st, "removeGroup")
  ELSE LET called == [st EXCEPT !.lastCall = [@ EXCEPT ![<<id.s, group.s>>] = "removeGroup"]]
       IN IF ~registered(st, id.s) THEN Returns(called, "removeGroup", Undef)
          ELSE IF group.s \notin DOMAIN st.groupStroage
               THEN Returns(called, "removeGroup", Undef)
          ELSE [called EXCEPT
                  !.groupStroage = SetFlag(@, group.s, id.s, FALSE),
                  !.out = Result("removeGroup", Undef, Called(callback), <<>>)]

\* ------------------------------------------------------------ result cache
cached(st, id) == IF id \in DOMAIN st.resultCache THEN st.resultCache[id] ELSE Undef

\* _.clone(value): undefined as it is; of an array, a new array holding the
\* same elements.
clone(h, value) ==
  IF value.t = "ref"
  THEN LET new == New(h, h[value.r]) IN [heap |-> new.heap, ret |-> Ref(new.r)]
  ELSE [heap |-> h, ret |-> value]

getOneResult(st, id) ==
  IF ~checkId(id) THEN Throws(st, "getOneResult")
  ELSE LET copy == clone(st.heap, cached(st, id.s))
       IN [st EXCEPT !.heap = copy.heap,
                     !.out = Result("getOneResult", copy.ret, FALSE, <<>>)]

\* _.each(fieldIds, id => { result[id] = getOneResult(validator, id) })
RECURSIVE getEach(_, _, _)
getEach(st, ids, result) ==
  IF ids = <<>> THEN [st |-> st, result |-> result]
  ELSE LET nx == getOneResult(st, Str(Head(ids)))
       IN getEach(nx, Tail(ids), result @@ (Head(ids) :> nx.out.ret))

getResults(st, groups) ==
  IF ~checkGroups(groups) THEN Throws(st, "getResults")
  ELSE LET got == getEach(st, InOrder(getIdsFromGroups(st, groups)), <<>>)
       IN [got.st EXCEPT
             !.out = Result("getResults", [t |-> "map", m |-> got.result], FALSE, <<>>)]

clearOneResult(st, id) ==
  IF ~checkId(id) THEN Throws(st, "clearOneResult")
  ELSE [st EXCEPT
          !.resultCache = [i \in DOMAIN @ \cup {id.s} |-> IF i = id.s THEN Undef ELSE @[i]],
          !.out = Result("clearOneResult", Undef, FALSE, <<>>)]

\* _.each(fieldIds, id => { clearOneResult(validator, id) })
RECURSIVE clearEach(_, _)
clearEach(st, ids) ==
  IF ids = <<>> THEN st ELSE clearEach(clearOneResult(st, Str(Head(ids))), Tail(ids))

\* clearResults clearing every cache entry, whatever the groups.
clearResultsAll(st, groups) ==
  IF ~checkGroups(groups) THEN Throws(st, "clearResults")
  ELSE [clearEach(st, InOrder(DOMAIN st.resultCache)) EXCEPT
          !.out = Result("clearResults", Undef, FALSE, <<>>)]

clearResults(st, groups) ==
  IF ~checkGroups(groups) THEN Throws(st, "clearResults")
  ELSE [clearEach(st, InOrder(getIdsFromGroups(st, groups))) EXCEPT
          !.out = Result("clearResults", Undef, FALSE, <<>>)]

\* The caller writes to the array the last call returned: to its element i
\* (top), or to a property of the structured result that element i is.
mutateReturned(st, i, top) ==
  LET r == st.out.ret.r
      e == st.heap[r].v[i]
  IN [st EXCEPT
        !.heap = IF top THEN [@ EXCEPT ![r].v[i] = Str("changed")]
                 ELSE [@ EXCEPT ![e.r].valid = ~@]]

\* The caller keeps the closure the call returned.
keepClosure(st) == [st EXCEPT !.closures = Append(@, st.out.ret)]

\* ------------------------------------------------------------------ inputs
Field(id, getter, name, groups) ==
  [t |-> "object", id |-> id, getter |-> getter, name |-> name, groups |-> groups]
Getter == Fn("getter")
Cb == Fn("callback")
A == Str("a")
G == Str("g")

\* The getter values a validation of st may need, for every id.
SamplesOf(st) ==
  LET lens == {Len(chainOf(st.heap[st.validationStorage[i]])) :
                 i \in DOMAIN st.validationStorage}
      longest == IF lens = {} THEN 0 ELSE CHOOSE n \in lens : \A m \in lens : m <= n
  IN [Ids -> [1..longest -> Samples]]
SamplesFor(st, id) ==
  IF id.t = "string" /\ registered(st, id.s)
  THEN [1..Len(chainOf(st.heap[st.validationStorage[id.s]])) -> Samples]
  ELSE {<<>>}

\* The caller may subscribe another listener, and keep another closure.
Room(st, id) ==
  id.t = "string" /\ registered(st, id.s)
    => Len(listenersOf(st.heap, st.heap[st.validationStorage[id.s]])) < MaxListeners
MayKeep(st) ==
  /\ st.out.ret.t = "closure"
  /\ Len(st.closures) < MaxClosures
  /\ \A i \in DOMAIN st.closures : st.closures[i] # st.out.ret

Init ==
  /\ validationStorage = <<>>
  /\ groupStroage = <<>>
  /\ resultCache = <<>>
  /\ heap = <<>>
  /\ closures = <<>>
  /\ out = Result("none", Undef, FALSE, <<>>)
  /\ cleared = {}
  /\ lastCall = [p \in Ids \X GroupNames |-> "none"]

\* ---------------------------------------------------------------------------
\* Spec: every operation on one field, with well-typed and with wrongly typed
\* arguments.
\* ---------------------------------------------------------------------------
GroupsOrNot == {Null, Arr(<<G>>), Num, Arr(<<G, Num>>)}

Register ==
  \/ \E f \in {<<Null, Null, Null>>, <<Str("Age"), Arr(<<G>>), Arr(<<Fn("check")>>)>>} :
       Becomes(register(Now, Field(A, Getter, f[1], f[2]), f[3], Cb))
  \/ \E field \in {Num, Field(Num, Getter, Null, Null), Field(A, Num, Null, Null),
                   Field(A, Getter, Num, Null), Field(A, Getter, Null, Num),
                   Field(A, Getter, Null, Arr(<<G, Num>>))} :
       Becomes(register(Now, field, Null, Cb))
  \/ \E bad \in {<<Num, Cb>>, <<Null, Num>>} :
       Becomes(register(Now, Field(A, Getter, Null, Null), bad[1], bad[2]))
Deregister ==
  \E args \in {<<A, Cb>>, <<Num, Cb>>, <<A, Num>>} :
    Becomes(deregister(Now, args[1], args[2]))
ValidateOne ==
  \E args \in {<<A, Cb>>, <<Num, Cb>>, <<A, Num>>} :
    \E samples \in SamplesFor(Now, args[1]) :
      Becomes(validateOne(Now, args[1], args[2], samples))
Validate ==
  \E args \in {<<g, Cb>> : g \in GroupsOrNot} \cup {<<Null, Num>>} :
    \E samples \in SamplesOf(Now) :
      Becomes(validate(Now, args[1], args[2], samples))
Subscribe ==
  \E args \in {<<Fn("L1"), Cb>>, <<Null, Cb>>, <<Num, Cb>>, <<Fn("L1"), Num>>} :
    /\ Room(Now, A)
    /\ Becomes(subscribe(Now, A, args[1], args[2]))
ClearListeners ==
  \E args \in {<<A, Cb>>, <<Num, Cb>>, <<A, Num>>} :
    Becomes(clearListeners(Now, args[1], args[2]))
UpdateGroups ==
  \E args \in {<<g, Cb>> : g \in GroupsOrNot} \cup {<<Arr(<<G>>), Num>>} :
    Becomes(updateGroups(Now, A, args[1], args[2]))
AddGroup ==
  \E args \in {<<G, Cb>>, <<Num, Cb>>, <<G, Num>>} :
    Becomes(addGroup(Now, A, args[1], args[2]))
RemoveGroup ==
  \E args \in {<<G, Cb>>, <<Num, Cb>>, <<G, Num>>} :
    Becomes(removeGroup(Now, A, args[1], args[2]))
GetOneResult == \E id \in {A, Num} : Becomes(getOneResult(Now, id))
GetResults == \E groups \in GroupsOrNot : Becomes(getResults(Now, groups))
ClearOneResult == \E id \in {A, Num} : Becomes(clearOneResult(Now, id))
ClearResults == \E groups \in GroupsOrNot : Becomes(clearResults(Now, groups))

Next ==
  \/ Register \/ Deregister \/ ValidateOne \/ Validate
  \/ Subscribe \/ ClearListeners
  \/ UpdateGroups \/ AddGroup \/ RemoveGroup
  \/ GetOneResult \/ GetResults \/ ClearOneResult \/ ClearResults

Spec == Init /\ [][Next]_vars

\* ---------------------------------------------------------------------------
\* What a caller can tell of the registry: every object by its contents.
\* ---------------------------------------------------------------------------
RECURSIVE Deep(_, _)
Deep(h, v) ==
  IF v.t # "ref" THEN v
  ELSE LET o == h[v.r]
       IN CASE o.t = "record" -> [o EXCEPT !.listeners = Deep(h, @)]
            [] o.t = "results" -> [o EXCEPT !.v = [i \in DOMAIN @ |-> Deep(h, @[i])]]
            [] OTHER -> o

\* Field storage: every registered id with its record, listeners included.
Fields == [i \in DOMAIN validationStorage |-> Deep(heap, Ref(validationStorage[i]))]
\* The result cache, entry by entry.
Cache == [i \in DOMAIN resultCache |-> Deep(heap, resultCache[i])]
Registry == <<Fields, groupStroage, Cache>>

\* ---------------------------------------------------------------------------
\* C2: register called with an id that is already registered is a no-op: the
\* stored field record (name, getter, validation chain, listeners), every
\* group membership map and the result cache are unchanged, the callback is
\* not invoked, and the call returns undefined.
\* ---------------------------------------------------------------------------
C2_Candidates ==
  {<<Field(A, Getter, f[1], f[2]), f[3]>> :
     f \in {<<Null, Null, Null>>, <<Str("Age"), Arr(<<G>>), Arr(<<Fn("check")>>)>>}}

C2_RegisterAgainIsNoOp ==
  [][\A c \in C2_Candidates :
       (registered(Now, "a") /\ Becomes(register(Now, c[1], c[2], Cb)))
         => /\ Registry' = Registry
            /\ out'.ret = Undef
            /\ ~out'.cb]_vars

\* register has just returned undefined for a field that has a name, a
\* chain, a listener, a cached result and a group.
C2_Witness ==
  /\ out.op = "register" /\ out.ret = Undef
  /\ registered(Now, "a")
  /\ Fields["a"].name = Str("Age")
  /\ Fields["a"].listeners.t = "listeners" /\ Fields["a"].listeners.v # <<>>
  /\ cached(Now, "a").t = "ref"
  /\ Truthy(groupStroage, "g", "a")

\* ---------------------------------------------------------------------------
\* C3: whenever an operation fails with a TypeError because of a wrongly typed
\* or malformed argument (an absent groups list passed to updateGroups
\* included), the registry (field storage with the listener lists, group
\* storage, result cache) is as it was before the call.
\* ---------------------------------------------------------------------------
C3_TypeErrorLeavesRegistry ==
  [][out'.ret = TypeError => Registry' = Registry]_vars

\* ---------------------------------------------------------------------------
\* C4: no operation called with well-typed arguments on an id that is not
\* registered throws: validateOne, subscribe (with a listener),
\* clearListeners, updateGroups, addGroup, removeGroup, deregister,
\* getOneResult and clearOneResult each complete normally.
\* ---------------------------------------------------------------------------
C4_Calls(st) ==
  {validateOne(st, A, Cb, <<>>), subscribe(st, A, Fn("L1"), Cb),
   clearListeners(st, A, Cb), updateGroups(st, A, Arr(<<G>>), Cb),
   addGroup(st, A, G, Cb), removeGroup(st, A, G, Cb), deregister(st, A, Cb),
   getOneResult(st, A), clearOneResult(st, A)}

C4_UnregisteredNeverThrows ==
  [][~registered(Now, "a") =>
       \A nx \in C4_Calls(Now) : Becomes(nx) => out'.ret # TypeError]_vars

\* ---------------------------------------------------------------------------
\* SpecListeners: one registered field, two listeners subscribed to it, the
\* closures kept and invoked, the listeners cleared.
\* ---------------------------------------------------------------------------
ListenerRegister == Becomes(register(Now, Field(A, Getter, Null, Null), Null, Null))
ListenerSubscribe ==
  \E l \in ListenerFns, keep \in BOOLEAN :
    LET nx == subscribe(Now, A, Fn(l), Null)
    IN /\ Room(Now, A)
       /\ keep => MayKeep(nx)
       /\ Becomes(IF keep THEN keepClosure(nx) ELSE nx)
ListenerUnsubscribe == \E i \in DOMAIN closures : Becomes(unsubscribe(Now, closures[i]))
ListenerClear == Becomes(clearListeners(Now, A, Null))
ListenerValidateOne == Becomes(validateOne(Now, A, Null, <<>>))

NextListeners ==
  \/ ListenerRegister \/ ListenerSubscribe
  \/ ListenerUnsubscribe \/ ListenerClear \/ ListenerValidateOne

SpecListeners == Init /\ [][NextListeners]_vars

\* The listeners validateOne(id) calls, in the order it calls them.
Notifies(st, id) ==
  LET called == validateOne(st, Str(id), Null,
                            CHOOSE samples \in SamplesFor(st, Str(id)) : TRUE).out.notified
  IN [i \in DOMAIN called |-> called[i][2]]

Others(s, l) == SelectSeq(s, LAMBDA x : x # l)
Count(s, l) == Cardinality({i \in DOMAIN s : s[i] = l})

\* ---------------------------------------------------------------------------
\* C5: once the unsubscribe closure returned by subscribe(id, listener) has
\* been invoked, validateOne(id) no longer calls that listener (subscribed
\* once), and it calls every other listener subscribed on the id exactly as
\* before.
\* ---------------------------------------------------------------------------
C5_UnsubscribedNotNotified ==
  [][\A i \in DOMAIN closures :
       LET c == closures[i]
       IN (/\ registered(Now, "a")
           /\ c.validation = validationStorage["a"]
           /\ Becomes(unsubscribe(Now, c)))
            => /\ Count(Notifies(Now, "a"), c.listener) <= 1
                    => Count(Notifies(Now, "a")', c.listener) = 0
               /\ Others(Notifies(Now, "a")', c.listener)
                    = Others(Notifies(Now, "a"), c.listener)]_vars

\* ---------------------------------------------------------------------------
\* C6: an invocation of an unsubscribe closure removes from the listener
\* sequence of its field only an occurrence of the listener the closure was
\* created for, at most one, and neither removes nor reorders an entry of
\* another listener.
\* ---------------------------------------------------------------------------
ListenersOfRecord(h, r) == listenersOf(h, h[r])

C6_RemovesOnlyItsOwn ==
  [][\A i \in DOMAIN closures :
       LET c == closures[i]
           before == ListenersOfRecord(heap, c.validation)
       IN Becomes(unsubscribe(Now, c))
            => LET after == ListenersOfRecord(heap', closures'[i].validation)
               IN \/ after = before
                  \/ \E k \in DOMAIN before :
                       /\ before[k] = c.listener
                       /\ after = [j \in 1..(Len(before) - 1) |->
                                     IF j < k THEN before[j] ELSE before[j + 1]]]_vars

\* ---------------------------------------------------------------------------
\* C7: after clearListeners(id) the listener sequence of the field is empty
\* and stays empty until the next subscribe on that id: validateOne(id) calls
\* no listener, whichever closures obtained before are invoked in between.
\* ---------------------------------------------------------------------------
C7_ClearedStaysEmpty ==
  \A id \in cleared : registered(Now, id) => Notifies(Now, id) = <<>>

\* ---------------------------------------------------------------------------
\* SpecGroups: two fields and two groups; fields are registered (in a group or
\* in none) and deregistered, their membership is written by updateGroups,
\* addGroup and removeGroup, and the results of groups are read.
\* ---------------------------------------------------------------------------
IdArgs == {Str(i) : i \in Ids}
GroupArgs == {Str(g) : g \in GroupNames}
GroupLists == {Arr(<<Str("g")>>), Arr(<<Str("h")>>), Arr(<<Str("g"), Str("h")>>)}

GroupRegister ==
  \E id \in IdArgs, groups \in {Null, Arr(<<G>>)} :
    Becomes(register(Now, Field(id, Getter, Null, groups), Arr(<<Fn("isAdult")>>), Null))
GroupDeregister == \E id \in IdArgs : Becomes(deregister(Now, id, Null))
GroupUpdate ==
  \E id \in IdArgs, groups \in GroupLists : Becomes(updateGroups(Now, id, groups, Null))
GroupAdd == \E id \in IdArgs, g \in GroupArgs : Becomes(addGroup(Now, id, g, Null))
GroupRemove == \E id \in IdArgs, g \in GroupArgs : Becomes(removeGroup(Now, id, g, Null))
GroupGetResults == \E groups \in {Null} \cup GroupLists : Becomes(getResults(Now, groups))

NextGroups ==
  \/ GroupRegister \/ GroupDeregister \/ GroupUpdate \/ GroupAdd \/ GroupRemove
  \/ GroupGetResults

SpecGroups == Init /\ [][NextGroups]_vars

\* ---------------------------------------------------------------------------
\* C1: every id whose membership flag is true in the map of any group is
\* present in field storage.
\* ---------------------------------------------------------------------------
C1_MembersAreRegistered ==
  \A g \in GroupNames, id \in Ids :
    Truthy(groupStroage, g, id) => id \in DOMAIN validationStorage

\* ---------------------------------------------------------------------------
\* SpecMembership: two fields, registered or not, added to and removed from
\* two groups one group at a time, and their results read by group.
\* ---------------------------------------------------------------------------
MemberRegister ==
  \E id \in IdArgs :
    Becomes(register(Now, Field(id, Getter, Null, Null), Arr(<<Fn("isAdult")>>), Null))
MemberAdd == \E id \in IdArgs, g \in GroupArgs : Becomes(addGroup(Now, id, g, Null))
MemberRemove == \E id \in IdArgs, g \in GroupArgs : Becomes(removeGroup(Now, id, g, Null))
MemberGetResults == \E groups \in GroupLists : Becomes(getResults(Now, groups))

NextMembership == MemberRegister \/ MemberAdd \/ MemberRemove \/ MemberGetResults

SpecMembership == Init /\ [][NextMembership]_vars

\* ---------------------------------------------------------------------------
\* C8: the keys of getResults(groups) are exactly the ids whose most recent
\* membership write in at least one of the named groups set the flag to true;
\* an id whose most recent addGroup/removeGroup call for each named group was
\* a removeGroup is not among them.
\* ---------------------------------------------------------------------------
NamesOf(groups) == {groups.v[i].s : i \in DOMAIN groups.v}

C8_ResultsFollowLastWrite ==
  \A groups \in GroupLists :
    LET keys == DOMAIN getResults(Now, groups).out.ret.m
    IN /\ keys = {id \in Ids : \E g \in NamesOf(groups) : lastCall[<<id, g>>] = "addGroup"}
       /\ \A id \in Ids :
            (\A g \in NamesOf(groups) : lastCall[<<id, g>>] = "removeGroup")
              => id \notin keys

\* ---------------------------------------------------------------------------
\* SpecValidate: two fields, registered in group g or in none and
\* deregistered, moved to group h, and validated by group.
\* ---------------------------------------------------------------------------
ValidateRegister ==
  \E id \in IdArgs, groups \in {Null, Arr(<<G>>)} :
    Becomes(register(Now, Field(id, Getter, Null, groups), Arr(<<Fn("isAdult")>>), Null))
ValidateDeregister == \E id \in IdArgs : Becomes(deregister(Now, id, Null))
ValidateUpdate == \E id \in IdArgs : Becomes(updateGroups(Now, id, Arr(<<Str("h")>>), Null))
ValidateGroups ==
  \E groups \in {Null} \cup GroupLists, samples \in SamplesOf(Now) :
    Becomes(validate(Now, groups, Null, samples))

NextValidate ==
  \/ ValidateRegister \/ ValidateDeregister \/ ValidateUpdate \/ ValidateGroups

SpecValidate == Init /\ [][NextValidate]_vars

\* ---------------------------------------------------------------------------
\* C9: validate(groups) returns a mapping whose keys are exactly the ids
\* resolved from groups and whose value for every key is the validation
\* result sequence of that field, one entry per function of its chain; no key
\* maps to undefined.
\* ---------------------------------------------------------------------------
C9_ValidateMapsToResults ==
  [][\A groups \in {Null} \cup GroupLists, samples \in SamplesOf(Now) :
       Becomes(validate(Now, groups, Null, samples))
         => /\ DOMAIN out'.ret.m = getIdsFromGroups(Now, groups)
            /\ \A id \in DOMAIN out'.ret.m :
                 /\ out'.ret.m[id].t = "ref"
                 /\ registered(Now, id)
                 /\ Len(heap'[out'.ret.m[id].r].v)
                      = Len(chainOf(heap[validationStorage[id]]))]_vars

\* ---------------------------------------------------------------------------
\* SpecResults: two fields with chains that yield a structured result object,
\* validated, their results read, the value read changed by the caller, and the
\* cache entry cleared.
\* ---------------------------------------------------------------------------
ResultRegister ==
  \E id \in IdArgs,
     validationChain \in {Arr(<<Fn("check")>>), Arr(<<Fn("isAdult"), Fn("check")>>)} :
    Becomes(register(Now, Field(id, Getter, Null, Null), validationChain, Null))
ResultDeregister == \E id \in IdArgs : Becomes(deregister(Now, id, Null))
ResultValidateOne ==
  \E id \in IdArgs : \E samples \in SamplesFor(Now, id) :
    Becomes(validateOne(Now, id, Null, samples))
ResultGetOne == \E id \in IdArgs : Becomes(getOneResult(Now, id))
ResultClearOne == \E id \in IdArgs : Becomes(clearOneResult(Now, id))

\* The caller holds the value the latest getOneResult returned, and may write
\* an element of it (top) or a property of an object found in it.
MayMutate(st, i, top) ==
  /\ st.out.op = "getOneResult"
  /\ st.out.ret.t = "ref"
  /\ i \in DOMAIN st.heap[st.out.ret.r].v
  /\ top \/ st.heap[st.out.ret.r].v[i].t = "ref"
ResultMutate ==
  \E i \in 1..2, top \in BOOLEAN :
    MayMutate(Now, i, top) /\ Becomes(mutateReturned(Now, i, top))

NextResults ==
  \/ ResultRegister \/ ResultDeregister \/ ResultValidateOne \/ ResultGetOne
  \/ ResultClearOne \/ ResultMutate

SpecResults == Init /\ [][NextResults]_vars

\* ---------------------------------------------------------------------------
\* C10: getOneResult(id) returns a deep copy of the cached result: the value
\* returned equals the cache entry and is another object, and no change the
\* caller makes to it, a change of an object nested in it included, changes
\* the cache entry.
\* ---------------------------------------------------------------------------
C10_ReturnsDeepCopy ==
  [][/\ \A id \in Ids :
          Becomes(getOneResult(Now, Str(id)))
            => /\ Deep(heap', out'.ret) = Deep(heap, cached(Now, id))
               /\ out'.ret.t = "ref" => out'.ret # resultCache'[id]
     /\ \A i \in 1..2, top \in BOOLEAN :
          MayMutate(Now, i, top) /\ Becomes(mutateReturned(Now, i, top))
            => Cache' = Cache]_vars

\* ---------------------------------------------------------------------------
\* SpecChain: one field registered with or without a name and with no chain,
\* an empty chain or a chain of one or two functions, subscribed to, validated,
\* its result read, and deregistered.
\* ---------------------------------------------------------------------------
Chains ==
  {Null, Arr(<<>>), Arr(<<Fn("nameOf")>>), Arr(<<Fn("isAdult"), Fn("check")>>),
   Arr(<<Fn("nameOf"), Fn("isAdult")>>)}

ChainRegister ==
  \E name \in {Null, Str("Age")}, validationChain \in Chains :
    Becomes(register(Now, Field(A, Getter, name, Null), validationChain, Null))
ChainDeregister == Becomes(deregister(Now, A, Null))
ChainValidateOne ==
  \E callback \in {Null, Cb} : \E samples \in SamplesFor(Now, A) :
    Becomes(validateOne(Now, A, callback, samples))

ChainSubscribe ==
  \E listener \in ListenerFns :
    Room(Now, A) /\ Becomes(subscribe(Now, A, Fn(listener), Null))

ChainGetOne == Becomes(getOneResult(Now, A))

NextChain ==
  \/ ChainRegister \/ ChainDeregister \/ ChainValidateOne \/ ChainSubscribe
  \/ ChainGetOne

SpecChain == Init /\ [][NextChain]_vars

\* ---------------------------------------------------------------------------
\* C11: validateOne on a registered field whose chain has N functions reads
\* the getter N times (no time for an empty or absent chain) and returns N
\* results, the i-th the output of the i-th chain function for the name
\* displayed (the id when no name was registered) and the i-th value read.
\* ---------------------------------------------------------------------------
\* What the validation function f returns for {name, value}.
C11_Output(f, name, value) ==
  CASE f = "check" -> [t |-> "object", valid |-> value >= 18]
    [] f = "isAdult" -> Bool(value >= 18)
    [] OTHER -> name

C11_OneResultPerFunction ==
  [][\A callback \in {Null, Cb} : \A samples \in SamplesFor(Now, A) :
       (registered(Now, "a") /\ Becomes(validateOne(Now, A, callback, samples)))
         => LET chain == IF Fields["a"].validationChain \in {Null, Undef} THEN <<>>
                         ELSE Fields["a"].validationChain.v
                shown == IF Fields["a"].name = Null THEN A ELSE Fields["a"].name
                results == Deep(heap', out'.ret).v
                n == Len(chain)
            IN /\ Len(samples) = n
               /\ Len(results) = n
               /\ \A i \in 1..n :
                    results[i] = C11_Output(chain[i].f, shown, samples[i])]_vars

\* validateOne has returned two results for a field with a name, one of them
\* the name.
C11_Witness ==
  /\ out.op = "validateOne" /\ out.ret.t = "ref"
  /\ registered(Now, "a") /\ Fields["a"].name = Str("Age")
  /\ Len(heap[out.ret.r].v) = 2
  /\ heap[out.ret.r].v[1] = Str("Age")

\* ---------------------------------------------------------------------------
\* C12: after deregister(id) on a registered id and until the id is registered
\* again, getOneResult(id) returns undefined, and validateOne(id) returns
\* undefined without throwing, writes no result to the cache and notifies no
\* listener.
\* ---------------------------------------------------------------------------
C12_DeregisteredIsSilent ==
  [][~registered(Now, "a")
       => /\ Becomes(getOneResult(Now, A)) => out'.ret = Undef
          /\ \A callback \in {Null, Cb} :
               Becomes(validateOne(Now, A, callback, <<>>))
               => /\ out'.ret = Undef
                  /\ out'.notified = <<>>
                  /\ Cache' = Cache]_vars

\* validateOne has returned undefined for a field that was validated and
\* deregistered.
C12_Witness ==
  /\ out.op = "validateOne" /\ out.ret = Undef
  /\ ~registered(Now, "a")
  /\ "a" \in DOMAIN resultCache /\ resultCache["a"] = Undef

\* ---------------------------------------------------------------------------
\* C13: group resolution.  With groups absent the ids targeted are exactly
\* the ids registered; with a list of group names they are exactly the union,
\* over the named groups, of the ids whose flag is true, each id once; a name
\* of no group contributes no id and causes no error.
\* ---------------------------------------------------------------------------
C13_ResolvesGroups ==
  [][\A groups \in {Null} \cup GroupLists, samples \in SamplesOf(Now) :
       Becomes(validate(Now, groups, Null, samples))
         => /\ out'.ret.t = "map"
            /\ DOMAIN out'.ret.m =
                 IF groups = Null THEN DOMAIN validationStorage
                 ELSE UNION {{id \in DOMAIN groupStroage[g] : groupStroage[g][id]} :
                               g \in NamesOf(groups) \cap DOMAIN groupStroage}]_vars

\* validate has returned for the two groups, not for the ids registered: a is
\* in h and no more in g, b is in g and has no flag in h.
C13_Witness ==
  /\ out.op = "validate" /\ out.ret.t = "map"
  /\ DOMAIN out.ret.m = {"a", "b"}
  /\ DOMAIN validationStorage = {"a"}
  /\ DOMAIN groupStroage = {"g", "h"}
  /\ DOMAIN groupStroage["g"] = {"a", "b"}
  /\ ~groupStroage["g"]["a"] /\ groupStroage["g"]["b"]
  /\ DOMAIN groupStroage["h"] = {"a"} /\ groupStroage["h"]["a"]

\* ---------------------------------------------------------------------------
\* SpecUpdate: two fields, registered in group g or in none, added to a group,
\* and given a new list of groups: none, one or two.
\* ---------------------------------------------------------------------------
UpdateLists == {Arr(<<>>)} \cup GroupLists

UpdateRegister ==
  \E id \in IdArgs, groups \in {Null, Arr(<<G>>)} :
    Becomes(register(Now, Field(id, Getter, Null, groups), Null, Null))
UpdateAdd == \E id \in IdArgs, g \in GroupArgs : Becomes(addGroup(Now, id, g, Null))
UpdateUpdate ==
  \E id \in IdArgs, groups \in UpdateLists, callback \in {Null, Cb} :
    Becomes(updateGroups(Now, id, groups, callback))

NextUpdate == UpdateRegister \/ UpdateAdd \/ UpdateUpdate

SpecUpdate == Init /\ [][NextUpdate]_vars

\* ---------------------------------------------------------------------------
\* C14: after updateGroups(id, groups) with a valid list, the flag of id is
\* true in exactly the groups listed (a group there was not is created), and
\* the flags of every other id in every group are as they were.
\* ---------------------------------------------------------------------------
\* The flag of id in group g: true, false, or none.
FlagOf(gs, g, id) ==
  IF g \in DOMAIN gs /\ id \in DOMAIN gs[g] THEN Bool(gs[g][id]) ELSE Undef

C14_UpdateReplacesGroups ==
  [][\A id \in Ids, groups \in UpdateLists, callback \in {Null, Cb} :
       Becomes(updateGroups(Now, Str(id), groups, callback))
         => /\ out'.ret = Bool(TRUE)
            /\ NamesOf(groups) \subseteq DOMAIN groupStroage'
            /\ \A g \in GroupNames :
                 /\ Truthy(groupStroage', g, id) <=> g \in NamesOf(groups)
                 /\ \A other \in Ids \ {id} :
                      FlagOf(groupStroage', g, other) = FlagOf(groupStroage, g, other)]_vars

\* updateGroups has moved a from g to h, and b is in g as before.
C14_Witness ==
  /\ out.op = "updateGroups" /\ out.ret = Bool(TRUE)
  /\ FlagOf(groupStroage, "g", "a") = Bool(FALSE)
  /\ FlagOf(groupStroage, "h", "a") = Bool(TRUE)
  /\ FlagOf(groupStroage, "g", "b") = Bool(TRUE)
  /\ FlagOf(groupStroage, "h", "b") = Undef

\* ---------------------------------------------------------------------------
\* SpecCache: two fields, registered in group g or in none and deregistered,
\* validated by group, their results read by group and one by one, and
\* cleared by group and one by one.
\* ---------------------------------------------------------------------------
CacheLists == {Null, Arr(<<G>>)}

CacheRegister ==
  \E id \in IdArgs, groups \in CacheLists :
    Becomes(register(Now, Field(id, Getter, Null, groups), Arr(<<Fn("check")>>), Null))
CacheDeregister == \E id \in IdArgs : Becomes(deregister(Now, id, Null))
CacheValidate ==
  \E groups \in CacheLists, samples \in SamplesOf(Now) :
    Becomes(validate(Now, groups, Null, samples))
CacheValidateOne ==
  \E id \in IdArgs : \E samples \in SamplesFor(Now, id) :
    Becomes(validateOne(Now, id, Null, samples))
CacheGetResults == \E groups \in CacheLists : Becomes(getResults(Now, groups))
CacheGetOne == \E id \in IdArgs : Becomes(getOneResult(Now, id))
CacheClearResults == \E groups \in CacheLists : Becomes(clearResults(Now, groups))
CacheClearOne == \E id \in IdArgs : Becomes(clearOneResult(Now, id))

NextCache ==
  \/ CacheRegister \/ CacheDeregister \/ CacheValidate \/ CacheValidateOne
  \/ CacheGetResults \/ CacheGetOne \/ CacheClearResults \/ CacheClearOne

SpecCache == Init /\ [][NextCache]_vars

\* ---------------------------------------------------------------------------
\* C15: getResults(groups) called right after validate(groups), no operation
\* in between, returns a mapping equal to the one validate returned: the same
\* keys, equal result sequences; and after clearResults(groups), getOneResult
\* returns undefined for every id resolved from groups.
\* ---------------------------------------------------------------------------
C15_ResultsAfterValidate ==
  [][\A groups \in CacheLists :
       /\ \A samples \in SamplesOf(Now) :
            Becomes(validate(Now, groups, Null, samples))
              => LET got == getResults(Now', groups)
                 IN /\ got.out.ret.t = "map"
                    /\ DOMAIN got.out.ret.m = DOMAIN out'.ret.m
                    /\ \A id \in DOMAIN out'.ret.m :
                         Deep(got.heap, got.out.ret.m[id]) = Deep(heap', out'.ret.m[id])
       /\ Becomes(clearResults(Now, groups))
            => \A id \in getIdsFromGroups(Now', groups) :
                 getOneResult(Now', Str(id)).out.ret = Undef]_vars

\* validate has just returned the result of a and nothing for b, which is in
\* the group and is not registered; getResults is about to return the same.
C15_Witness ==
  /\ out.op = "validate" /\ out.ret.t = "map"
  /\ DOMAIN out.ret.m = {"a", "b"}
  /\ out.ret.m["a"].t = "ref" /\ out.ret.m["b"] = Undef
  /\ ~registered(Now, "b")
  /\ DOMAIN getResults(Now, Arr(<<G>>)).out.ret.m = {"a", "b"}

\* ---------------------------------------------------------------------------
\* C16: within one validateOne(id) on a registered field, all chain functions
\* run, then the cache entry of id is overwritten with the new result
\* sequence, then every listener of the field is called once, in subscription
\* order, with that result sequence, then the callback is called; a listener
\* that reads getOneResult(id) when it is notified sees the new result.
\* ---------------------------------------------------------------------------
C16_SaveThenNotifyThenCallback ==
  [][\A callback \in {Null, Cb} : \A samples \in SamplesFor(Now, A) :
       (registered(Now, "a") /\ Becomes(validateOne(Now, A, callback, samples)))
         => LET trace == validateOneTrace(Now, A, callback, samples)
                n == Len(chainOf(heap[validationStorage["a"]]))
                listeners == listenersOf(heap, heap[validationStorage["a"]])
                m == Len(listeners)
                result == Deep(heap', out'.ret)
                before == Deep(heap, cached(Now, "a"))
            IN /\ Len(trace) = n + 1 + m + (IF callback = Null THEN 0 ELSE 1)
               /\ \A i \in 1..n :
                    /\ trace[i].e = "chain"
                    /\ Deep(trace[i].st.heap, cached(trace[i].st, "a")) = before
               /\ trace[n + 1].e = "save"
               /\ Deep(trace[n + 1].st.heap, cached(trace[n + 1].st, "a")) = result
               /\ \A j \in 1..m :
                    LET notice == trace[n + 1 + j]
                        read == getOneResult(notice.st, A)
                    IN /\ notice.e = "listener" /\ notice.f = listeners[j]
                       /\ Deep(notice.st.heap, notice.arg) = result
                       /\ Deep(read.heap, read.out.ret) = result
               /\ callback # Null => trace[n + 1 + m + 1].e = "callback"
               /\ out'.notified = [j \in 1..m |-> <<"a", listeners[j]>>]
               /\ out'.cb = (callback # Null)
               /\ validateOne(Now, A, callback, samples)
                    = [trace[Len(trace)].st EXCEPT !.out = validateOne(Now, A, callback, samples).out]]_vars

\* validateOne has run a chain of two functions, notified L2 and L1, which
\* subscribed in that order, and called back.
C16_Witness ==
  /\ out.op = "validateOne" /\ out.ret.t = "ref" /\ out.cb
  /\ Len(heap[out.ret.r].v) = 2
  /\ out.notified = <<<<"a", "L2">>, <<"a", "L1">>>>
  /\ resultCache["a"] = out.ret

\* ---------------------------------------------------------------------------
\* SpecAgain: one field registered in group g, in group h or in none,
\* subscribed to, validated alone and by group, deregistered and registered
\* again, with the closures of both registrations invoked.
\* ---------------------------------------------------------------------------
AgainLists == {Null, Arr(<<G>>), Arr(<<Str("h")>>)}

AgainRegister ==
  \E groups \in AgainLists :
    Becomes(register(Now, Field(A, Getter, Null, groups), Arr(<<Fn("isAdult")>>), Null))
AgainDeregister == Becomes(deregister(Now, A, Null))
AgainSubscribe ==
  \E keep \in BOOLEAN :
    LET nx == subscribe(Now, A, Fn("L1"), Null)
    IN /\ registered(Now, "a") /\ Room(Now, A)
       /\ keep => MayKeep(nx)
       /\ Becomes(IF keep THEN keepClosure(nx) ELSE nx)
AgainUnsubscribe == \E i \in DOMAIN closures : Becomes(unsubscribe(Now, closures[i]))
AgainValidateOne ==
  \E samples \in SamplesFor(Now, A) : Becomes(validateOne(Now, A, Null, samples))
AgainValidate ==
  \E samples \in SamplesOf(Now) : Becomes(validate(Now, Arr(<<G>>), Null, samples))

NextAgain ==
  \/ AgainRegister \/ AgainDeregister \/ AgainSubscribe \/ AgainUnsubscribe
  \/ AgainValidateOne \/ AgainValidate

SpecAgain == Init /\ [][NextAgain]_vars

\* ---------------------------------------------------------------------------
\* C17: deregister(id) leaves every group membership map as it is, so the id
\* registered again, with no groups or with other groups, is still a member
\* of every group its flag was true in, and validate and getResults on those
\* groups include it; the new registration has none of the old listeners and
\* no cached result.
\* ---------------------------------------------------------------------------
C17_GroupsOutliveRegistration ==
  [][/\ Becomes(deregister(Now, A, Null)) => groupStroage' = groupStroage
     /\ \A groups \in AgainLists :
          (/\ ~registered(Now, "a")
           /\ Becomes(register(Now, Field(A, Getter, Null, groups),
                               Arr(<<Fn("isAdult")>>), Null)))
            => /\ \A g \in GroupNames :
                    Truthy(groupStroage, g, "a")
                      => /\ Truthy(groupStroage', g, "a")
                         /\ "a" \in DOMAIN getResults(Now', Arr(<<Str(g)>>)).out.ret.m
                         /\ \A samples \in SamplesOf(Now') :
                              LET run == validate(Now', Arr(<<Str(g)>>), Null, samples)
                              IN /\ "a" \in DOMAIN run.out.ret.m
                                 /\ run.out.ret.m["a"].t = "ref"
               /\ Notifies(Now', "a") = <<>>
               /\ getOneResult(Now', A).out.ret = Undef
     /\ \A i \in DOMAIN closures :
          (/\ registered(Now, "a")
           /\ closures[i].validation # validationStorage["a"]
           /\ Becomes(unsubscribe(Now, closures[i])))
            => Fields' = Fields]_vars

\* a has been registered in h after it was registered in g, validated,
\* subscribed to and deregistered: it is in both groups, and the caller holds
\* a closure of the first registration.
C17_Witness ==
  /\ out.op = "register" /\ out.ret = Bool(TRUE)
  /\ Truthy(groupStroage, "g", "a") /\ Truthy(groupStroage, "h", "a")
  /\ "a" \in DOMAIN resultCache
  /\ closures # <<>>

\* ---------------------------------------------------------------------------
\* SpecRemove: two fields, registered in group g or in none, added to and
\* removed from two groups, with and without a callback.
\* ---------------------------------------------------------------------------
RemoveRegister ==
  \E id \in IdArgs, groups \in {Null, Arr(<<G>>)} :
    Becomes(register(Now, Field(id, Getter, Null, groups), Null, Null))
RemoveAdd == \E id \in IdArgs, g \in GroupArgs : Becomes(addGroup(Now, id, g, Null))
RemoveRemove ==
  \E id \in IdArgs, g \in GroupArgs, callback \in {Null, Cb} :
    Becomes(removeGroup(Now, id, g, callback))

NextRemove == RemoveRegister \/ RemoveAdd \/ RemoveRemove

SpecRemove == Init /\ [][NextRemove]_vars

\* ---------------------------------------------------------------------------
\* C18: removeGroup(id, group) sets the flag of id in group to false only when
\* id is registered and group exists; otherwise it changes nothing, creates no
\* group and does not call back; in every case the flags of other ids, and
\* of id in other groups, are as they were.
\* ---------------------------------------------------------------------------
C18_RemoveOnlyWhereBothExist ==
  [][\A id \in Ids, g \in GroupNames, callback \in {Null, Cb} :
       Becomes(removeGroup(Now, Str(id), Str(g), callback))
         => /\ out'.ret = Undef
            /\ DOMAIN groupStroage' = DOMAIN groupStroage
            /\ IF registered(Now, id) /\ g \in DOMAIN groupStroage
               THEN FlagOf(groupStroage', g, id) = Bool(FALSE)
               ELSE groupStroage' = groupStroage /\ ~out'.cb
            /\ \A p \in (GroupNames \X Ids) \ {<<g, id>>} :
                 FlagOf(groupStroage', p[1], p[2]) = FlagOf(groupStroage, p[1], p[2])]_vars

\* removeGroup has taken a out of g and called back; b is in g and a is in h
\* as before.
C18_Witness ==
  /\ out.op = "removeGroup" /\ out.cb
  /\ registered(Now, "a")
  /\ FlagOf(groupStroage, "g", "a") = Bool(FALSE)
  /\ FlagOf(groupStroage, "g", "b") = Bool(TRUE)
  /\ FlagOf(groupStroage, "h", "a") = Bool(TRUE)

\* ---------------------------------------------------------------------------
\* SpecClear: two fields, registered in group g or in none, subscribed to,
\* validated, deregistered, and their results cleared one by one and by
\* group.
\* ---------------------------------------------------------------------------
ClearRegister ==
  \E id \in IdArgs, groups \in CacheLists :
    Becomes(register(Now, Field(id, Getter, Null, groups), Arr(<<Fn("isAdult")>>), Null))
ClearDeregister == \E id \in IdArgs : Becomes(deregister(Now, id, Null))
ClearSubscribe ==
  \E id \in IdArgs :
    /\ registered(Now, id.s) /\ Room(Now, id)
    /\ Becomes(subscribe(Now, id, Fn("L1"), Null))
ClearValidateOne ==
  \E id \in IdArgs : \E samples \in SamplesFor(Now, id) :
    Becomes(validateOne(Now, id, Null, samples))
ClearOne == \E id \in IdArgs : Becomes(clearOneResult(Now, id))
ClearGroups == \E groups \in CacheLists : Becomes(clearResults(Now, groups))

NextClear ==
  \/ ClearRegister \/ ClearDeregister \/ ClearSubscribe \/ ClearValidateOne
  \/ ClearOne \/ ClearGroups

SpecClear == Init /\ [][NextClear]_vars

\* ---------------------------------------------------------------------------
\* C19: clearOneResult(id) and clearResults(groups) unset the cache entries
\* of exactly the ids targeted (the one id, or the ids resolved from groups)
\* and leave the rest as it is: the field registrations, the listener lists,
\* the group membership maps and the cache entries of all other ids.
\* ---------------------------------------------------------------------------
\* The cache entry of id, by its contents.
Entry(id) == Deep(heap, cached(Now, id))

C19_ClearsOnlyTheTargets ==
  [][/\ \A id \in Ids :
          Becomes(clearOneResult(Now, Str(id)))
            => /\ \A i \in Ids : Entry(i)' = IF i = id THEN Undef ELSE Entry(i)
               /\ Fields' = Fields
               /\ groupStroage' = groupStroage
     /\ \A groups \in CacheLists :
          Becomes(clearResults(Now, groups))
            => LET targets == IF groups = Null THEN DOMAIN validationStorage
                              ELSE {i \in Ids : \E g \in NamesOf(groups) :
                                      FlagOf(groupStroage, g, i) = Bool(TRUE)}
               IN /\ \A i \in Ids :
                       Entry(i)' = IF i \in targets THEN Undef ELSE Entry(i)
                  /\ Fields' = Fields
                  /\ groupStroage' = groupStroage]_vars

\* clearResults has cleared the result of a, which is in g, and left the
\* result of b, which is not; both fields have a listener.
C19_Witness ==
  /\ out.op = "clearResults"
  /\ DOMAIN validationStorage = {"a", "b"}
  /\ FlagOf(groupStroage, "g", "a") = Bool(TRUE)
  /\ FlagOf(groupStroage, "g", "b") = Undef
  /\ "a" \in DOMAIN resultCache /\ Entry("a") = Undef
  /\ Entry("b") # Undef
  /\ \A i \in Ids : listenersOf(heap, heap[validationStorage[i]]) # <<>>

\* ---------------------------------------------------------------------------
\* C20: in every state the operations reach, an id whose cache entry is set
\* (not undefined) is registered, and that entry is the result sequence the
\* most recent validateOne or validate run of the id returned, since the id
\* was last registered and since its entry was last cleared.
\* ---------------------------------------------------------------------------
C20_CacheHoldsLastRun ==
  [][\A id \in Ids :
       \* set only for a registered id, and unset by its registration
       /\ Entry(id)' # Undef => registered(Now', id)
       /\ (~registered(Now, id) /\ registered(Now', id)) => Entry(id)' = Undef
       \* a run of id leaves what it returned
       /\ \A samples \in SamplesFor(Now, Str(id)) :
            (registered(Now, id) /\ Becomes(validateOne(Now, Str(id), Null, samples)))
              => out'.ret.t = "ref" /\ cached(Now', id) = out'.ret
       /\ \A groups \in CacheLists, samples \in SamplesOf(Now) :
            (/\ registered(Now, id) /\ id \in getIdsFromGroups(Now, groups)
             /\ Becomes(validate(Now, groups, Null, samples)))
              => out'.ret.m[id].t = "ref" /\ cached(Now', id) = out'.ret.m[id]
       \* and nothing but a run, a clear or a deregistration changes it
       /\ Entry(id)' # Entry(id)
            => \/ Entry(id)' = Undef
                    /\ out'.op \in {"clearOneResult", "clearResults", "deregister"}
               \/ out'.op = "validateOne" /\ cached(Now', id) = out'.ret
               \/ /\ out'.op = "validate" /\ id \in DOMAIN out'.ret.m
                  /\ cached(Now', id) = out'.ret.m[id]]_vars

\* validate has just returned the result of a that the cache holds; b was
\* validated, deregistered and registered again, and has no result.
C20_Witness ==
  /\ out.op = "validate" /\ out.ret.t = "map"
  /\ DOMAIN validationStorage = {"a", "b"}
  /\ DOMAIN out.ret.m = {"a"}
  /\ resultCache["a"] = out.ret.m["a"] /\ out.ret.m["a"].t = "ref"
  /\ "b" \in DOMAIN resultCache /\ Entry("b") = Undef

====
